---- MODULE Spec2Model ----
(***************************************************************************)
(* Model of hl-minutes: the incremental candle downloader of               *)
(* fetch_minutes.py (fetch_all, safe_call_with_retry, load_checkpoint,     *)
(* save_checkpoint, save_parquet_incremental) with the settings of         *)
(* config.py.  Time is in scaled milliseconds; a candle row is the record  *)
(* [t |-> open time]: the other columns ride along with the row and take   *)
(* no part in drop_duplicates(subset=["t"]) or sort_values("t").           *)
(***************************************************************************)
EXTENDS Integers, Sequences, FiniteSets, TLC

\* ---------------------------------------------------------------- config.py
COINS == <<"BTC", "ETH">>
INTERVALS == <<"1m">>

\* chunk_ms = CHUNK_HOURS * 3600 * 1000, scaled
ChunkMs == 2
\* YEARS_BACK * 365 * 24 * 3600 * 1000, scaled
HorizonMs == 3
\* safe_call_with_retry(func, max_retries=10, **kwargs)
MaxRetries == 10

\* ------------------------------------------------------------------ bounds
\* the clock of a run reads Now0 .. Now0 + MaxSkew
MaxSkew == 1
\* number of process starts
MaxRuns == 2
\* longest answer of an arbitrary remote source
MaxRows == 2
\* get_top_volume_coins(info, top_n=20), scaled
TopN == 1
\* largest dayNtlVlm of an instrument
MaxVol == 2

Now0 == HorizonMs
MaxNow == Now0 + MaxSkew
Times == 0..(MaxNow - 1)
NoTime == 0 - 1

Keys == {<<COINS[a], INTERVALS[b]>> : a \in 1..Len(COINS), b \in 1..Len(INTERVALS)}

VARIABLES
    pc,         \* position of the process in fetch_all
    err,        \* exception that ended the run, "none" otherwise
    run,        \* number of the process start
    now_ms,     \* now_ms, captured once per run
    ckpt,       \* the in-memory checkpoint dict
    ckptFile,   \* CHECKPOINT_FILE on disk
    files,      \* the parquet file of every key
    ci, ii,     \* loop positions in COINS and INTERVALS
    start_ms, end_ms,
    attempt,    \* loop variable of safe_call_with_retry
    data,       \* rows returned by candles_snapshot
    df,         \* the frame to_parquet is writing
    chunkNo,    \* history: chunks started for the current key in this run
    loaded,     \* history: the mapping load_checkpoint returned
    preChunk,   \* history: ckpt when the current chunk began
    requests,   \* history: calls of func in the current safe_call_with_retry
    sleeps,     \* history: backoff sleeps in the current safe_call_with_retry
    n429,       \* history: 429 answers in the current safe_call_with_retry
    ret,        \* history: open times the source returned, per key
    first,      \* history: start_ms of the first chunk the source answered, per key
    lastGood,   \* history: last complete content of CHECKPOINT_FILE
    persisted,  \* history: open times ever held by a complete parquet file
    merged,     \* history: open times handed to completed save_parquet_incremental calls
    src,        \* the candles of a deterministic remote source
    cfgCoins,   \* config.COINS: None or a list
    coins,      \* the local COINS of fetch_all
    universe,   \* the answer of meta_and_asset_ctxs, <<>> when not asked
    selQueried, \* history: get_top_volume_coins was called in this run
    answer,     \* history: the last answer of candles_snapshot in this chunk
    preFiles    \* history: the parquet files when the current chunk began

vars == <<pc, err, run, now_ms, ckpt, ckptFile, files, ci, ii, start_ms, end_ms,
          attempt, data, df, chunkNo, loaded, preChunk, requests, sleeps, n429,
          ret, first, lastGood, persisted, merged, src, cfgCoins, coins, universe,
          selQueried, answer, preFiles>>

\* ------------------------------------------------------------ file contents
EmptyMap == [k \in {} |-> 0]
AbsentCkpt == [st |-> "absent", map |-> EmptyMap]
TornCkpt == [st |-> "torn", map |-> EmptyMap]
OkCkpt(m) == [st |-> "ok", map |-> m]

AbsentFile == [st |-> "absent", rows |-> <<>>]
TornFile == [st |-> "torn", rows |-> <<>>]
OkFile(r) == [st |-> "ok", rows |-> r]

Min(a, b) == IF a < b THEN a ELSE b

TsOf(rows) == {rows[i].t : i \in 1..Len(rows)}

\* ------------------------------------------------- save_parquet_incremental
\* df.drop_duplicates(subset=["t"]): the first row of every t is kept
RECURSIVE DropDuplicates(_)
DropDuplicates(rows) ==
    IF rows = <<>> THEN <<>>
    ELSE LET front == DropDuplicates(SubSeq(rows, 1, Len(rows) - 1))
             last == rows[Len(rows)]
         IN IF last.t \in TsOf(front) THEN front ELSE Append(front, last)

\* one row put in its place in a frame ascending by t
RECURSIVE InsertByT(_, _)
InsertByT(sorted, r) ==
    IF sorted = <<>> THEN <<r>>
    ELSE IF sorted[Len(sorted)].t <= r.t THEN Append(sorted, r)
    ELSE Append(InsertByT(SubSeq(sorted, 1, Len(sorted) - 1), r), sorted[Len(sorted)])

\* df.sort_values("t")
RECURSIVE SortValues(_)
SortValues(rows) ==
    IF rows = <<>> THEN <<>>
    ELSE InsertByT(SortValues(SubSeq(rows, 1, Len(rows) - 1)), rows[Len(rows)])

\* slip: the old frame is left out of the concat
MergeFramesNewOnly(df_old, df_new) == SortValues(DropDuplicates(df_new))

\* pd.concat([df_old, df_new]); drop_duplicates; sort_values
MergeFrames(df_old, df_new) == SortValues(DropDuplicates(df_old \o df_new))

\* os.path.exists(path)
PathExists(file) == file.st # "absent"

\* slip: the new frame always replaces the file
FrameToWriteNewOnly(file, df_new) == df_new

\* the frame save_parquet_incremental hands to to_parquet
FrameToWrite(file, df_new) ==
    IF PathExists(file) THEN MergeFrames(file.rows, df_new) ELSE df_new

\* ------------------------------------------------------------- fetch_all
\* key = f"{coin}-{interval}"
CurKey == <<coins[ci], INTERVALS[ii]>>

\* slip: resume one millisecond after the checkpoint
StartMsPlusOne(ck, key, now) ==
    IF key \notin DOMAIN ck THEN now - HorizonMs ELSE ck[key] + 1

\* the starting point of a key: lines 144-147
StartMs(ck, key, now) ==
    IF key \notin DOMAIN ck THEN now - HorizonMs ELSE ck[key]

\* slip: the chunk width is subtracted
EndMsBackwards(start, now) == Min(start - ChunkMs, now)

\* slip: the chunk is not cut at now_ms
EndMsNoClamp(start, now) == start + ChunkMs

\* slip: the chunk width is not added
EndMsNoAdvance(start, now) == Min(start, now)

\* end_ms = min(start_ms + chunk_ms, now_ms)
EndMs(start, now) == Min(start + ChunkMs, now)

\* slip: the checkpoint is updated without saving the rows
AfterCallNoSave(d) == "ck_open"

\* slip: the rows are saved whether or not there are any
AfterCallAlwaysSave(d) == "pq_read"

\* if data: save_parquet_incremental(...) ; then the checkpoint update
AfterCall(d) == IF d # <<>> THEN "pq_read" ELSE "ck_open"

\* slip: the loop variable is stepped twice
NextAttemptSkip(a) == a + 2

\* for attempt in range(1, ...): the next value of the loop variable
NextAttempt(a) == a + 1

\* slip: range(1, max_retries)
RetriesExhaustedEarly(a) == a >= MaxRetries

\* range(1, max_retries + 1) is used up
RetriesExhausted(a) == a > MaxRetries

\* slip: the dict is replaced by one holding only the key
SetKeyOnly(ck, key, v) == [k \in {key} |-> v]

\* ckpt[key] = end_ms
SetKey(ck, key, v) == [k \in DOMAIN ck \cup {key} |-> IF k = key THEN v ELSE ck[k]]

\* ------------------------------------------------------- the remote source
RowsIn(s, e) == {[t |-> x] : x \in s..(e - 1)}

\* any answer of the source for [s, e): unsorted, repeating a t, or empty
Responses(s, e) == UNION {[1..n -> RowsIn(s, e)] : n \in 0..MaxRows}

\* the answer of the deterministic source: its candles of [s, e), ascending
RECURSIVE DetResponse(_, _)
DetResponse(s, e) ==
    IF e <= s THEN <<>>
    ELSE IF (e - 1) \in src THEN Append(DetResponse(s, e - 1), [t |-> e - 1])
    ELSE DetResponse(s, e - 1)

\* no answer of candles_snapshot yet, and its return of rows
NoAnswer == [cls |-> "none", status |-> 0]
RowsAnswer == [cls |-> "rows", status |-> 200]

\* an exception of candles_snapshot: its class and its status_code
Errors == [cls : {"ClientError", "ConnectionError"}, status : {429, 500}]

\* slip: every ClientError is taken for a rate limit
RetriedAnyClientError(e) == e.cls = "ClientError"

\* except ClientError as e: if getattr(e, "status_code", None) == 429
Retried(e) == e.cls = "ClientError" /\ e.status = 429

\* ----------------------------------------------------- instrument selection
\* config.COINS as fetch_minutes.py finds it
ConfigCoins == [none |-> FALSE, list |-> COINS]
NoneCoins == [none |-> TRUE, list |-> <<>>]

\* meta["universe"] zipped with asset_ctxs: every instrument once, any
\* order, any volume
Universes ==
    {u \in [1..Len(COINS) -> [name : {COINS[i] : i \in 1..Len(COINS)}, vol : 1..MaxVol]] :
        \A i, j \in 1..Len(COINS) : i # j => u[i].name # u[j].name}

\* one entry put in its place in a list descending by volume; entries of the
\* same volume keep their order (list.sort is stable, also with reverse=True)
RECURSIVE InsertByVol(_, _)
InsertByVol(sorted, x) ==
    IF sorted = <<>> THEN <<x>>
    ELSE IF sorted[Len(sorted)].vol >= x.vol THEN Append(sorted, x)
    ELSE Append(InsertByVol(SubSeq(sorted, 1, Len(sorted) - 1), x), sorted[Len(sorted)])

\* volume_list.sort(key=lambda x: x[1], reverse=True)
RECURSIVE SortByVolume(_)
SortByVolume(u) ==
    IF u = <<>> THEN <<>>
    ELSE InsertByVol(SortByVolume(SubSeq(u, 1, Len(u) - 1)), u[Len(u)])

\* get_top_volume_coins: the names of volume_list[:top_n]
TopVolumeCoins(u, n) ==
    LET sorted == SortByVolume(u)
    IN [i \in 1..Min(n, Len(sorted)) |-> sorted[i].name]

\* slip: an empty list counts as not configured
UsesConfigNonEmpty(cfg) == ~cfg.none /\ cfg.list # <<>>

\* if CONFIG_COINS is not None
UsesConfig(cfg) == ~cfg.none

\* get_available_perp_coins
GetAvailablePerpCoins(cfg, u) ==
    IF UsesConfig(cfg) THEN cfg.list ELSE TopVolumeCoins(u, TopN)

\* slip: an unreadable checkpoint is taken for no checkpoint
LoadFailsNever(file) == FALSE

\* json.load raises on a file that is not complete JSON
LoadFails(file) == file.st = "torn"

\* what load_checkpoint returns when it returns
LoadedMap(file) == IF file.st = "ok" THEN file.map ELSE EmptyMap

\* slip: while start_ms <= now_ms
ShouldFetchInclusive(start, now) == start <= now

\* while start_ms < now_ms
ShouldFetch(start, now) == start < now

\* ---------------------------------------------------------------- states
NoKeyTimes == [k \in Keys |-> {}]

InitMemory ==
    /\ pc = "start" /\ err = "none" /\ run = 1
    /\ now_ms \in Now0..MaxNow
    /\ ckpt = EmptyMap
    /\ files = [k \in Keys |-> AbsentFile]
    /\ coins = <<>> /\ universe = <<>> /\ selQueried = FALSE
    /\ answer = NoAnswer /\ preFiles = [k \in Keys |-> AbsentFile]
    /\ ci = 1 /\ ii = 1 /\ start_ms = 0 /\ end_ms = 0 /\ attempt = 1
    /\ data = <<>> /\ df = <<>> /\ chunkNo = 0
    /\ loaded = EmptyMap /\ preChunk = EmptyMap
    /\ requests = 0 /\ sleeps = 0 /\ n429 = 0
    /\ ret = NoKeyTimes /\ first = [k \in Keys |-> NoTime]
    /\ lastGood = EmptyMap /\ persisted = NoKeyTimes /\ merged = NoKeyTimes

\* first start on an empty disk, config.py as it is
InitCommon == InitMemory /\ ckptFile = AbsentCkpt /\ cfgCoins = ConfigCoins

Init == InitCommon /\ src = {}

InitDet == InitCommon /\ src \in SUBSET Times

\* sources that answer nothing, rows for the first chunk only, and a row for
\* every chunk of a run from the horizon
TermSources == {{}, {0}, {0, ChunkMs, HorizonMs}}

InitTerm == InitCommon /\ src \in TermSources

\* a start that may find the checkpoint file a kill inside save_checkpoint left
InitTorn ==
    /\ InitMemory /\ src = {} /\ cfgCoins = ConfigCoins
    /\ ckptFile \in {AbsentCkpt, TornCkpt}

\* any setting of config.COINS, a source with a candle at every time
InitSelect ==
    /\ InitMemory /\ src = Times /\ ckptFile = AbsentCkpt
    /\ cfgCoins \in {NoneCoins} \cup
                    {[none |-> FALSE, list |-> l] : l \in {<<>>, COINS, <<COINS[Len(COINS)]>>}}

\* raise: the exception leaves fetch_all and the process ends
Raise(e) == pc' = "failed" /\ err' = e

\* ckpt = load_checkpoint(); COINS = get_available_perp_coins(info)
LoadCheckpoint ==
    /\ pc = "start"
    /\ IF LoadFails(ckptFile)
       THEN /\ Raise("JSONDecodeError")
            /\ UNCHANGED <<ckpt, loaded, coins, universe, selQueried>>
       ELSE /\ ckpt' = LoadedMap(ckptFile)
            /\ loaded' = LoadedMap(ckptFile)
            /\ selQueried' = ~UsesConfig(cfgCoins)
            /\ \E u \in (IF UsesConfig(cfgCoins) THEN {<<>>} ELSE Universes) :
                   /\ universe' = u
                   /\ coins' = GetAvailablePerpCoins(cfgCoins, u)
            /\ pc' = "pair" /\ err' = err
    /\ ci' = 1 /\ ii' = 1
    /\ UNCHANGED <<run, now_ms, ckptFile, files, start_ms, end_ms, attempt, data, df,
                   chunkNo, preChunk, requests, sleeps, n429, ret, first, lastGood,
                   persisted, src, merged,
                   cfgCoins, answer, preFiles>>

\* for coin in COINS: for interval in INTERVALS: the starting point
BeginPair ==
    /\ pc = "pair"
    /\ IF ci > Len(coins)
       THEN /\ pc' = "done"
            /\ UNCHANGED <<start_ms, chunkNo>>
       ELSE /\ start_ms' = StartMs(ckpt, CurKey, now_ms)
            /\ chunkNo' = 0
            /\ pc' = "while"
    /\ UNCHANGED <<err, run, now_ms, ckpt, ckptFile, files, ci, ii, end_ms, attempt,
                   data, df, loaded, preChunk, requests, sleeps, n429, ret, first,
                   lastGood, persisted, src, merged,
                   cfgCoins, coins, universe, selQueried, answer, preFiles>>

\* while start_ms < now_ms: end_ms = min(...); safe_call_with_retry is entered
WhileCheck ==
    /\ pc = "while"
    /\ IF ShouldFetch(start_ms, now_ms)
       THEN /\ end_ms' = EndMs(start_ms, now_ms)
            /\ answer' = NoAnswer /\ preFiles' = files
            /\ attempt' = 1
            /\ chunkNo' = chunkNo + 1
            /\ preChunk' = ckpt
            /\ requests' = 0 /\ sleeps' = 0 /\ n429' = 0
            /\ pc' = "call"
            /\ UNCHANGED <<ci, ii>>
       ELSE /\ IF ii < Len(INTERVALS)
               THEN ii' = ii + 1 /\ ci' = ci
               ELSE ii' = 1 /\ ci' = ci + 1
            /\ pc' = "pair"
            /\ UNCHANGED <<end_ms, attempt, chunkNo, preChunk, requests, sleeps, n429,
                           answer, preFiles>>
    /\ UNCHANGED <<err, run, now_ms, ckpt, ckptFile, files, start_ms, data, df, loaded,
                   ret, first, lastGood, persisted, src, merged,
                   cfgCoins, coins, universe, selQueried>>

\* the start of the first chunk ever fetched for the key is remembered
NoteFetched ==
    first' = IF first[CurKey] = NoTime THEN [first EXCEPT ![CurKey] = start_ms] ELSE first

\* safe_call_with_retry: func(**kwargs) returns rows
CallReturn(rows) ==
    /\ pc = "call" /\ ~RetriesExhausted(attempt)
    /\ data' = rows
    /\ answer' = RowsAnswer
    /\ requests' = requests + 1
    /\ ret' = [ret EXCEPT ![CurKey] = @ \cup TsOf(rows)]
    /\ NoteFetched
    /\ pc' = AfterCall(rows)
    /\ UNCHANGED <<err, run, now_ms, ckpt, ckptFile, files, ci, ii, start_ms, end_ms,
                   attempt, df, chunkNo, loaded, preChunk, sleeps, n429, lastGood,
                   persisted, src, merged,
                   cfgCoins, coins, universe, selQueried, preFiles>>

\* the source answers with any rows of the range
CallOk == \E rows \in Responses(start_ms, end_ms) : CallReturn(rows)

\* the deterministic source answers with its candles of the range
CallOkDet == CallReturn(DetResponse(start_ms, end_ms))

\* safe_call_with_retry: func(**kwargs) raises e
CallRaises(e) ==
    /\ pc = "call" /\ ~RetriesExhausted(attempt)
    /\ requests' = requests + 1
    /\ answer' = e
    /\ IF Retried(e)
       THEN /\ n429' = n429 + 1
            /\ sleeps' = sleeps + 1
            /\ attempt' = NextAttempt(attempt)
            /\ UNCHANGED <<pc, err>>
       ELSE /\ Raise(e.cls)
            /\ UNCHANGED <<n429, sleeps, attempt>>
    /\ UNCHANGED <<first, run, now_ms, ckpt, ckptFile, files, ci, ii, start_ms, end_ms,
                   data, df, chunkNo, loaded, preChunk, ret, lastGood, persisted, src,
                   merged, cfgCoins, coins, universe, selQueried, preFiles>>

\* safe_call_with_retry: ClientError with status_code 429: sleep, continue
Call429 == \E e \in {x \in Errors : x.cls = "ClientError" /\ x.status = 429} : CallRaises(e)

\* safe_call_with_retry: another ClientError is re-raised, any other
\* exception is not caught
CallError == \E e \in {x \in Errors : x.cls # "ClientError" \/ x.status # 429} : CallRaises(e)

\* safe_call_with_retry: the loop is over, raise RuntimeError
GiveUp ==
    /\ pc = "call" /\ RetriesExhausted(attempt)
    /\ Raise("RuntimeError")
    /\ UNCHANGED <<run, now_ms, ckpt, ckptFile, files, ci, ii, start_ms, end_ms, attempt,
                   data, df, chunkNo, loaded, preChunk, requests, sleeps, n429, ret,
                   first, lastGood, persisted, src, merged,
                   cfgCoins, coins, universe, selQueried, answer, preFiles>>

\* save_parquet_incremental up to the opening of the file by to_parquet:
\* read_parquet of an existing file, merge, and the path is opened for writing
PqRead ==
    /\ pc = "pq_read"
    /\ IF files[CurKey].st = "torn"
       THEN /\ Raise("ArrowInvalid")
            /\ UNCHANGED <<df, files>>
       ELSE /\ df' = FrameToWrite(files[CurKey], data)
            /\ files' = [files EXCEPT ![CurKey] = TornFile]
            /\ pc' = "pq_write" /\ err' = err
    /\ UNCHANGED <<run, now_ms, ckpt, ckptFile, ci, ii, start_ms, end_ms, attempt, data,
                   chunkNo, loaded, preChunk, requests, sleeps, n429, ret, first,
                   lastGood, persisted, src, merged,
                   cfgCoins, coins, universe, selQueried, answer, preFiles>>

\* to_parquet finishes: the file holds the whole frame
PqWrite ==
    /\ pc = "pq_write"
    /\ files' = [files EXCEPT ![CurKey] = OkFile(df)]
    /\ persisted' = [persisted EXCEPT ![CurKey] = @ \cup TsOf(df)]
    /\ merged' = [merged EXCEPT ![CurKey] = @ \cup TsOf(data)]
    /\ df' = <<>>
    /\ pc' = "ck_open"
    /\ UNCHANGED <<err, run, now_ms, ckpt, ckptFile, ci, ii, start_ms, end_ms, attempt,
                   data, chunkNo, loaded, preChunk, requests, sleeps, n429, ret, first,
                   lastGood, src,
                   cfgCoins, coins, universe, selQueried, answer, preFiles>>

\* ckpt[key] = end_ms; save_checkpoint: open(CHECKPOINT_FILE, "w") truncates
CkOpen ==
    /\ pc = "ck_open"
    /\ ckpt' = SetKey(ckpt, CurKey, end_ms)
    /\ ckptFile' = TornCkpt
    /\ pc' = "ck_dump"
    /\ UNCHANGED <<err, run, now_ms, files, ci, ii, start_ms, end_ms, attempt, data, df,
                   chunkNo, loaded, preChunk, requests, sleeps, n429, ret, first,
                   lastGood, persisted, src, merged,
                   cfgCoins, coins, universe, selQueried, answer, preFiles>>

\* json.dump and close; start_ms = end_ms; time.sleep(API_SLEEP)
CkDump ==
    /\ pc = "ck_dump"
    /\ ckptFile' = OkCkpt(ckpt)
    /\ lastGood' = ckpt
    /\ start_ms' = end_ms
    /\ data' = <<>>
    /\ pc' = "while"
    /\ UNCHANGED <<err, run, now_ms, ckpt, files, ci, ii, end_ms, attempt, df, chunkNo,
                   loaded, preChunk, requests, sleeps, n429, ret, first, persisted, src, merged,
                   cfgCoins, coins, universe, selQueried, answer, preFiles>>

\* what a process start finds: no memory of the run before, the disk as left
FreshMemory ==
    /\ ckpt' = EmptyMap /\ ci' = 1 /\ ii' = 1 /\ start_ms' = 0 /\ end_ms' = 0
    /\ attempt' = 1 /\ data' = <<>> /\ df' = <<>> /\ chunkNo' = 0
    /\ loaded' = EmptyMap /\ preChunk' = EmptyMap
    /\ requests' = 0 /\ sleeps' = 0 /\ n429' = 0
    /\ coins' = <<>> /\ universe' = <<>> /\ selQueried' = FALSE
    /\ answer' = NoAnswer /\ preFiles' = files

Running == pc \in {"start", "pair", "while", "call", "pq_read", "pq_write", "ck_open", "ck_dump"}

\* the process is killed (power loss, SIGKILL) wherever it is
Crash ==
    /\ Running
    /\ pc' = "crashed" /\ err' = "killed"
    /\ FreshMemory
    /\ UNCHANGED <<run, now_ms, ckptFile, files, ret, first, lastGood, persisted, src, merged,
                   cfgCoins>>

\* python fetch_minutes.py is started again
Restart ==
    /\ pc \in {"done", "failed", "crashed"}
    /\ run < MaxRuns
    /\ run' = run + 1
    /\ now_ms' \in Now0..MaxNow
    /\ pc' = "start" /\ err' = "none"
    /\ FreshMemory
    /\ UNCHANGED <<ckptFile, files, ret, first, lastGood, persisted, src, merged,
                   cfgCoins>>

Next ==
    \/ LoadCheckpoint \/ BeginPair \/ WhileCheck
    \/ CallOk \/ Call429 \/ CallError \/ GiveUp
    \/ PqRead \/ PqWrite \/ CkOpen \/ CkDump
    \/ Restart

NextCrash == Next \/ Crash

NextDet ==
    \/ LoadCheckpoint \/ BeginPair \/ WhileCheck
    \/ CallOkDet \/ Call429 \/ CallError \/ GiveUp
    \/ PqRead \/ PqWrite \/ CkOpen \/ CkDump
    \/ Restart

\* runs that end by completion or by an exception, any remote source
Spec == Init /\ [][Next]_vars

\* the same, and the process may be killed at any point
SpecCrash == Init /\ [][NextCrash]_vars

\* runs against a deterministic remote source
SpecDet == InitDet /\ [][NextDet]_vars

\* runs that may start on an unparseable checkpoint file
SpecTorn == InitTorn /\ [][Next]_vars

\* runs under any setting of config.COINS
SpecSelect == InitSelect /\ [][NextDet]_vars

\* a step of the running process
RunStepDet ==
    \/ LoadCheckpoint \/ BeginPair \/ WhileCheck
    \/ CallOkDet \/ Call429 \/ CallError \/ GiveUp
    \/ PqRead \/ PqWrite \/ CkOpen \/ CkDump

\* the process is single-threaded and keeps running: every request returns
\* or raises, every sleep and every write ends
SpecTermFair == InitTerm /\ [][NextDet]_vars /\ WF_vars(RunStepDet)

\* ------------------------------------------------------------------ claims
MidWrite(k) == files[k].st = "torn"

\* open times the source returned for chunks that end at or before x
CoveredTs(k, x) == {t \in ret[k] : t < x}

\* C1: the checkpoint of a key, in memory and in CHECKPOINT_FILE, is advanced
\* to end_ms only after the rows returned for the chunk are in the key's
\* parquet file: whenever the file is not being rewritten, every row returned
\* for a chunk the checkpoint covers is in the file.
C1_CheckpointAfterRows ==
    \A k \in Keys :
        ~MidWrite(k) =>
            /\ k \in DOMAIN ckpt => CoveredTs(k, ckpt[k]) \subseteq TsOf(files[k].rows)
            /\ (ckptFile.st = "ok" /\ k \in DOMAIN ckptFile.map) =>
                   CoveredTs(k, ckptFile.map[k]) \subseteq TsOf(files[k].rows)

\* a chunk with rows has been written and its checkpoint is in memory, the
\* checkpoint file not yet rewritten
C1_Witness ==
    /\ pc = "ck_dump" /\ data # <<>>
    /\ ckpt[CurKey] = end_ms
    /\ TsOf(data) \subseteq TsOf(files[CurKey].rows)

\* C2: with a persisted checkpoint X and a deterministic source, a re-run
\* makes no request for the key that ends at or before X, and when it is done
\* the key's dataset is the one a single run over the whole range produces:
\* the source's candles from the first start to the final checkpoint.
C2_Resumability ==
    /\ (pc = "call" /\ CurKey \in DOMAIN loaded) => end_ms > loaded[CurKey]
    /\ (pc = "done" /\ run > 1) =>
           \A k \in DOMAIN loaded :
               /\ files[k].st # "torn"
               /\ files[k].rows = DetResponse(first[k], ckptFile.map[k])

\* a re-run is done whose dataset holds rows from before and from after X
C2_Witness ==
    /\ pc = "done" /\ run > 1
    /\ \E k \in DOMAIN loaded :
           /\ \E i \in 1..Len(files[k].rows) : files[k].rows[i].t < loaded[k]
           /\ \E i \in 1..Len(files[k].rows) : files[k].rows[i].t >= loaded[k]

\* C3: wherever the process is killed, the checkpoint file still holds the
\* last persisted checkpoint, so the next run can resume from it, and every
\* row that was persisted before the kill is still in its dataset file.
C3_CrashConsistency ==
    pc = "crashed" =>
        /\ ckptFile.st # "torn"
        /\ ckptFile.map = lastGood
        /\ \A k \in Keys : files[k].st # "torn" /\ persisted[k] \subseteq TsOf(files[k].rows)

StrictlyAscending(rows) == \A i \in 1..(Len(rows) - 1) : rows[i].t < rows[i + 1].t

\* C4: after every save_parquet_incremental, whether or not the file existed,
\* the rows of the file are strictly ascending by t.
C4_SortInvariant ==
    \A k \in Keys : files[k].st = "ok" => StrictlyAscending(files[k].rows)

\* C5: saving the same non-empty new_rows twice in a row leaves the file that
\* saving them once leaves, for any state of the file, absent included.
C5_IdempotentMerge ==
    (pc = "pq_read" /\ ~MidWrite(CurKey)) =>
        LET once == FrameToWrite(files[CurKey], data)
            twice == FrameToWrite(OkFile(once), data)
        IN twice = once

\* C6: after any sequence of completed save_parquet_incremental calls for a
\* key, the open times in the key's file are the union of the open times of
\* the rows handed to those calls.
C6_NoRowLost ==
    \A k \in Keys :
        /\ files[k].st = "ok" => TsOf(files[k].rows) = merged[k]
        /\ files[k].st = "absent" => merged[k] = {}

\* a second save for a key has merged new open times into an existing file
C6_Witness ==
    /\ pc = "ck_open" /\ data # <<>>
    /\ \E t \in merged[CurKey] : t \notin TsOf(data)
    /\ TsOf(files[CurKey].rows) = merged[CurKey]

\* C7: during a run the checkpoint of a key never decreases and no key leaves
\* the mapping, in memory and in every complete checkpoint file.
C7_CheckpointMonotone ==
    [][run' = run =>
        /\ \A k \in DOMAIN ckpt : k \in DOMAIN ckpt' /\ ckpt'[k] >= ckpt[k]
        /\ ckptFile'.st = "ok" =>
               \A k \in DOMAIN lastGood :
                   k \in DOMAIN ckptFile'.map /\ ckptFile'.map[k] >= lastGood[k]]_vars

\* a loaded checkpoint has been advanced and persisted by the run
C7_Witness ==
    /\ pc = "while" /\ chunkNo > 0
    /\ CurKey \in DOMAIN loaded
    /\ ckptFile.st = "ok" /\ ckptFile.map[CurKey] > loaded[CurKey]

\* C8 as claimed: the first request of a key starts at checkpoint + 1 when a
\* checkpoint was loaded for the key, at now_ms minus the horizon otherwise.
C8_ResumeAtCheckpointPlusOne ==
    (pc = "call" /\ chunkNo = 1) =>
        start_ms = IF CurKey \in DOMAIN loaded THEN loaded[CurKey] + 1
                   ELSE now_ms - HorizonMs

\* C8 amended: the first request of a key starts at the loaded checkpoint
\* itself, and at now_ms minus the horizon when none was loaded.
C8_ResumeAtCheckpoint ==
    (pc = "call" /\ chunkNo = 1) =>
        start_ms = IF CurKey \in DOMAIN loaded THEN loaded[CurKey]
                   ELSE now_ms - HorizonMs

\* the first request of a key that has a loaded checkpoint is in flight
C8_Witness ==
    /\ pc = "call" /\ chunkNo = 1 /\ requests = 0
    /\ CurKey \in DOMAIN loaded

\* C9: a chunk answered by 429 on every attempt is requested exactly
\* max_retries times, then safe_call_with_retry raises; the run makes no
\* further step, and the checkpoint in memory and on disk is the one from
\* before the chunk.
C9_RateLimitExhaustion ==
    /\ [](/\ (pc = "call" /\ n429 = MaxRetries) => RetriesExhausted(attempt)
          /\ (pc = "failed" /\ err = "RuntimeError") =>
                 /\ requests = MaxRetries /\ n429 = MaxRetries
                 /\ ckpt = preChunk
                 /\ ckptFile.st # "torn" /\ ckptFile.map = preChunk)
    /\ [][(pc = "call" /\ n429 = MaxRetries) => (pc' = "failed" /\ err' = "RuntimeError")]_vars
    /\ [][pc = "failed" => (pc' = "start" /\ run' = run + 1)]_vars

\* the retries of a chunk are used up after an earlier chunk was checkpointed
C9_Witness ==
    /\ pc = "failed" /\ err = "RuntimeError"
    /\ CurKey \in DOMAIN preChunk /\ ckptFile.st = "ok"

\* C10: a request answered by k < max_retries 429s and then by rows returns
\* after k sleeps and k + 1 requests, the attempt counter starts at 1 for
\* every chunk, and the chunk's checkpoint is advanced to end_ms.
C10_RateLimitRecovery ==
    /\ pc = "call" => (attempt = requests + 1 /\ requests = n429 /\ sleeps = n429)
    /\ pc \in {"pq_read", "pq_write", "ck_open", "ck_dump"} =>
           (requests = n429 + 1 /\ sleeps = n429 /\ n429 < MaxRetries /\ attempt = n429 + 1)
    /\ (pc = "while" /\ chunkNo > 0) =>
           /\ start_ms = end_ms
           /\ ckpt[CurKey] = end_ms
           /\ ckptFile = OkCkpt(ckpt)

\* the second chunk of a key got through after two 429s, checkpoint advanced
C10_Witness ==
    /\ pc = "while" /\ chunkNo = 2 /\ n429 = 2 /\ sleeps = 2 /\ requests = 3
    /\ ckptFile.st = "ok" /\ ckptFile.map[CurKey] = end_ms

\* an answer that is an exception other than the 429 rate limit
NonRateLimit(a) ==
    /\ a.cls \in {"ClientError", "ConnectionError"}
    /\ ~(a.cls = "ClientError" /\ a.status = 429)

\* C11: an error of the source other than a 429 ClientError leaves
\* safe_call_with_retry on the attempt where it occurs, without retry or
\* sleep, and ends fetch_all with every dataset file and every checkpoint,
\* in memory and on disk, as they were before the chunk's request.
C11_ErrorPropagates ==
    NonRateLimit(answer) =>
        /\ pc = "failed" /\ err = answer.cls
        /\ requests = n429 + 1 /\ sleeps = n429
        /\ ckpt = preChunk
        /\ ckptFile.st # "torn" /\ ckptFile.map = preChunk
        /\ files = preFiles

\* a ClientError 500 after a 429, with a dataset and a checkpoint on disk
C11_Witness ==
    /\ pc = "failed" /\ answer = [cls |-> "ClientError", status |-> 500]
    /\ n429 > 0
    /\ ckptFile.st = "ok" /\ \E k \in Keys : files[k].st = "ok"

\* C12: wherever save_checkpoint is interrupted, load_checkpoint can still
\* parse the checkpoint file, and the file holds the previous or the new
\* complete mapping.
C12_AtomicCheckpointSave ==
    pc \in {"crashed", "start"} =>
        /\ ~LoadFails(ckptFile)
        /\ LoadedMap(ckptFile) = lastGood

\* reader.load_kline: pd.read_parquet of the key's path
LoadKline(k) ==
    IF files[k].st = "ok" THEN [err |-> "none", rows |-> files[k].rows]
    ELSE IF files[k].st = "absent" THEN [err |-> "FileNotFoundError", rows |-> <<>>]
    ELSE [err |-> "ArrowInvalid", rows |-> <<>>]

\* C13: at every moment, during and between save_parquet_incremental calls,
\* a reader of a key's dataset file gets the complete previous or the
\* complete new dataset, never a partly written file.
C13_NoTornDataset ==
    \A k \in Keys : LoadKline(k).err # "ArrowInvalid"

\* C14: a chunk for which the source returns no rows writes no dataset file
\* and creates none, and its checkpoint is still set to end_ms and persisted
\* before the next chunk.
C14_EmptyChunk ==
    /\ [](/\ pc \in {"pq_read", "pq_write"} => data # <<>>
          /\ (pc \in {"ck_open", "ck_dump"} /\ data = <<>>) => files = preFiles
          /\ (pc = "ck_dump" /\ data = <<>>) => ckpt[CurKey] = end_ms)
    /\ [][(pc = "ck_dump" /\ data = <<>>) =>
              /\ ckptFile' = OkCkpt(ckpt) /\ ckptFile'.map[CurKey] = end_ms
              /\ files' = preFiles
              /\ pc' = "while" /\ start_ms' = end_ms]_vars

\* an empty chunk of a key without a file has been checkpointed
C14_Witness ==
    /\ pc = "while" /\ chunkNo > 0 /\ answer = RowsAnswer
    /\ files[CurKey].st = "absent"
    /\ ckptFile.st = "ok" /\ ckptFile.map[CurKey] = end_ms

\* the key was loaded with a checkpoint at or after now_ms
AlreadyCurrent(k) == k \in DOMAIN loaded /\ loaded[k] >= now_ms

\* C15: for a key whose checkpoint is at or after now_ms when the run starts,
\* fetch_all makes no request, writes no dataset file, does not save the
\* checkpoint file on its behalf, and leaves its checkpoint as loaded.
C15_AlreadyCurrent ==
    /\ [](pc \in {"call", "pq_read", "pq_write", "ck_open", "ck_dump"} =>
              ~AlreadyCurrent(CurKey))
    /\ [][\A k \in Keys :
              (AlreadyCurrent(k) /\ run' = run) =>
                  /\ files'[k] = files[k]
                  /\ ckpt'[k] = loaded[k]
                  /\ ckptFile'.st = "ok" => ckptFile'.map[k] = loaded[k]]_vars

\* the loop of a key that is already current is being skipped
C15_Witness ==
    /\ pc = "while" /\ chunkNo = 0
    /\ AlreadyCurrent(CurKey)
    /\ start_ms = loaded[CurKey]

\* C16: load_checkpoint returns the empty mapping when the file does not
\* exist and raises when the file cannot be parsed; the run then ends at
\* once: no request, no selector query, no dataset or checkpoint write, and
\* the unparseable file stays as it is.
C16_CheckpointLoad ==
    /\ [](/\ (pc = "pair" /\ ckptFile.st = "absent") => (ckpt = EmptyMap /\ loaded = EmptyMap)
          /\ (pc = "failed" /\ err = "JSONDecodeError") =>
                 /\ ckptFile = TornCkpt
                 /\ requests = 0 /\ chunkNo = 0 /\ answer = NoAnswer /\ ~selQueried)
    /\ [][(pc = "start" /\ ckptFile.st = "torn") =>
              /\ pc' = "failed" /\ err' = "JSONDecodeError"
              /\ files' = files /\ ckptFile' = ckptFile]_vars
    /\ [][(pc = "failed" /\ err = "JSONDecodeError") =>
              (pc' = "start" /\ files' = files /\ ckptFile' = ckptFile)]_vars

\* a second start has failed on the same unparseable file
C16_Witness ==
    /\ pc = "failed" /\ err = "JSONDecodeError" /\ run > 1
    /\ ckptFile = TornCkpt

\* the start_ms of a key in this run
RunStart(k) == IF k \in DOMAIN loaded THEN loaded[k] ELSE now_ms - HorizonMs

\* C17: the requests of a key go from start_ms to min(start_ms + chunk_ms,
\* now_ms), each starts where the one before ended, the last one ends at
\* now_ms, and when the run is done the persisted checkpoint of every key
\* that had anything to fetch is now_ms.
C17_ChunkCoverage ==
    /\ [](/\ pc = "call" =>
                 /\ end_ms = Min(start_ms + ChunkMs, now_ms)
                 /\ start_ms < end_ms
                 /\ chunkNo = 1 => start_ms = RunStart(CurKey)
          /\ pc = "done" =>
                 \A k \in Keys :
                     RunStart(k) < now_ms =>
                         (ckptFile.st = "ok" /\ k \in DOMAIN ckptFile.map
                              /\ ckptFile.map[k] = now_ms))
    /\ [][(pc = "while" /\ pc' = "call" /\ chunkNo > 0) => start_ms' = end_ms]_vars
    /\ [][(pc = "while" /\ pc' = "pair" /\ chunkNo > 0) =>
              (end_ms = now_ms /\ ckptFile.map[CurKey] = now_ms)]_vars
    /\ [][run' = run => now_ms' = now_ms]_vars

\* a first run is done: every key went over the whole horizon, the last
\* chunk shorter than chunk_ms
C17_Witness ==
    /\ pc = "done" /\ loaded = EmptyMap
    /\ \A k \in Keys : k \in DOMAIN ckptFile.map /\ ckptFile.map[k] = now_ms
    /\ (now_ms - RunStart(<<COINS[1], INTERVALS[1]>>)) % ChunkMs # 0

\* C18: within a run the pairs are taken one after the other, never going
\* back; a step taken for one pair leaves the dataset file, the checkpoint
\* (memory and disk) and the answers of every other pair as they are, also
\* when the pair fails, and no key leaves the checkpoint.
C18_IsolatedPairs ==
    [][run' = run =>
        /\ ci' > ci \/ (ci' = ci /\ ii' >= ii)
        /\ \A k \in DOMAIN ckpt : k \in DOMAIN ckpt'
        /\ \A k \in Keys :
               (ci > Len(coins) \/ k # CurKey) =>
                   /\ files'[k] = files[k]
                   /\ ret'[k] = ret[k]
                   /\ k \in DOMAIN ckpt => ckpt'[k] = ckpt[k]
                   /\ (ckptFile'.st = "ok" /\ k \in DOMAIN lastGood) =>
                          (k \in DOMAIN ckptFile'.map /\ ckptFile'.map[k] = lastGood[k])]_vars

\* the second pair has failed after the first pair was drained
C18_Witness ==
    /\ pc = "failed" /\ ci = 2 /\ chunkNo > 0
    /\ ckptFile.st = "ok"
    /\ <<coins[1], INTERVALS[1]>> \in DOMAIN ckptFile.map
    /\ ckptFile.map[<<coins[1], INTERVALS[1]>>] = now_ms

\* load_checkpoint and get_available_perp_coins have returned
CoinsChosen == pc \in {"pair", "while", "call", "pq_read", "pq_write", "ck_open", "ck_dump", "done"}

\* cs are the n instruments of u with the largest volume, largest first
IsTopByVolume(cs, u, n) ==
    LET vol(c) == (CHOOSE x \in {u[i] : i \in 1..Len(u)} : x.name = c).vol
        names == {u[i].name : i \in 1..Len(u)}
        chosen == {cs[i] : i \in 1..Len(cs)}
    IN /\ Len(cs) = Min(n, Len(u))
       /\ chosen \subseteq names /\ Cardinality(chosen) = Len(cs)
       /\ \A i \in 1..(Len(cs) - 1) : vol(cs[i]) >= vol(cs[i + 1])
       /\ \A c \in chosen : \A d \in names \ chosen : vol(c) >= vol(d)

\* C19 as claimed: with config.COINS None or empty the run fetches the
\* instruments the volume-ranked selector returns; with a non-empty list it
\* fetches the list and the selector is not queried.
C19_AutoWhenNoneOrEmpty ==
    CoinsChosen =>
        IF cfgCoins.none \/ cfgCoins.list = <<>>
        THEN selQueried /\ IsTopByVolume(coins, universe, TopN)
        ELSE ~selQueried /\ coins = cfgCoins.list

\* C19 amended: only None selects by volume; any list, the empty one
\* included, is fetched as it is and the selector is not queried.
C19_AutoWhenNone ==
    CoinsChosen =>
        IF cfgCoins.none
        THEN selQueried /\ IsTopByVolume(coins, universe, TopN)
        ELSE ~selQueried /\ coins = cfgCoins.list

\* a run in automatic mode is done and has a dataset for the top instrument
C19_Witness ==
    /\ pc = "done" /\ cfgCoins.none /\ selQueried
    /\ Len(coins) > 0
    /\ files[<<coins[1], INTERVALS[1]>>].st = "ok"

\* C20: whatever checkpoint is loaded and however the source answers, a run
\* that has started ends, done or failed: no chunk is requested more than
\* max_retries times and every finished chunk moves start_ms forward.
C20_Termination ==
    /\ [](requests <= MaxRetries)
    /\ [][pc = "ck_dump" => start_ms' > start_ms]_vars
    /\ (pc = "start") ~> (pc \in {"done", "failed"})

\* a run is done whose last chunk was answered after rate limits
C20_Witness ==
    /\ pc = "done" /\ n429 > 0 /\ chunkNo > 1
    /\ start_ms = now_ms

====
